---- MODULE Spec2Model ----
(***************************************************************************)
(* Order processing function: processOrder (parse -> validate -> create    *)
(* -> initializeContainer -> storeOrder -> sendOrderMessage -> close),     *)
(* the withRetry engine, the error taxonomy (handleError) and the two      *)
(* gateway services.                                                       *)
(*                                                                         *)
(* Specifications:                                                         *)
(*   Spec           one processOrder request against nondeterministic      *)
(*                  gateways;                                              *)
(*   SpecFair       the same when every awaited promise settles;           *)
(*   SpecStore      the same against a container that already holds        *)
(*                  records;                                               *)
(*   SpecTwo        two interleaved processOrder executions;               *)
(*   SpecRetry      one direct call of withRetry with an arbitrary policy  *)
(*                  and an arbitrary fallible operation;                   *)
(*   SpecLookup     direct calls of StorageService.storeOrder and          *)
(*                  getOrder;                                              *)
(*   SpecMessaging  direct calls of MessagingService.sendOrderMessage and  *)
(*                  close.                                                 *)
(***************************************************************************)
EXTENDS Integers, Sequences, FiniteSets, TLC

(***************************************************************************)
(* Bounds of the model (not program constants).                            *)
(***************************************************************************)
\* number of distinct identifiers uuidv4() may return
NumIds == 2
\* largest maxAttempts a caller of withRetry passes in SpecRetry
MaxPolicyAttempts == 4
\* number of distinct failures the operation of SpecRetry can raise
NumOpErrors == 2

Ids == {"id-" \o ToString(i) : i \in 1..NumIds}

Min(a, b) == IF a <= b THEN a ELSE b

RECURSIVE Pow(_, _)
Pow(b, e) == IF e <= 0 THEN 1 ELSE b * Pow(b, e - 1)

(***************************************************************************)
(* Error values.  Every thrown value is a record of the same shape:        *)
(*   name             class of the value ("ValidationError",               *)
(*                    "OrderProcessingError", "Error", or "undefined" for  *)
(*                    the JavaScript value undefined)                      *)
(*   message, code, statusCode, validationErrors   its fields             *)
(***************************************************************************)
\* an OrderProcessingError whose default statusCode is 502
OrderProcessingErrorBadGateway(message, code) ==
    [name |-> "OrderProcessingError", message |-> message, code |-> code,
     statusCode |-> 502, validationErrors |-> << >>]

\* new OrderProcessingError(message, code) with the default statusCode
OrderProcessingError(message, code) ==
    [name |-> "OrderProcessingError", message |-> message, code |-> code,
     statusCode |-> 500, validationErrors |-> << >>]

\* ValidationError without its status argument: the default 500 applies
ValidationErrorDefaultStatus(message, validationErrors) ==
    [name |-> "ValidationError", message |-> message, code |-> "VALIDATION_ERROR",
     statusCode |-> 500, validationErrors |-> validationErrors]

\* new ValidationError(message, validationErrors): code and status are fixed
ValidationError(message, validationErrors) ==
    [name |-> "ValidationError", message |-> message, code |-> "VALIDATION_ERROR",
     statusCode |-> 400, validationErrors |-> validationErrors]

\* a failure raised outside the taxonomy (SDK error, TypeError, ...)
PlainError(message) ==
    [name |-> "Error", message |-> message, code |-> "",
     statusCode |-> 0, validationErrors |-> << >>]

\* the value of a variable that was declared and never assigned
Undefined ==
    [name |-> "undefined", message |-> "", code |-> "",
     statusCode |-> 0, validationErrors |-> << >>]

\* error instanceof ValidationError
IsValidationError(e) == e.name = "ValidationError"

\* error instanceof OrderProcessingError (ValidationError extends it)
IsOrderProcessingError(e) == e.name \in {"OrderProcessingError", "ValidationError"}

(***************************************************************************)
(* handleError: the response for a caught failure.                         *)
(***************************************************************************)
\* a handler whose last branch answers with the message of the failure
handleErrorLeakMessage(error) ==
    IF IsValidationError(error)
    THEN [status |-> error.statusCode,
          jsonBody |-> [success |-> FALSE, message |-> error.message,
                        errors |-> error.validationErrors]]
    ELSE IF IsOrderProcessingError(error)
    THEN [status |-> error.statusCode,
          jsonBody |-> [success |-> FALSE, message |-> error.message,
                        code |-> error.code]]
    ELSE [status |-> 500,
          jsonBody |-> [success |-> FALSE, message |-> error.message]]

handleError(error) ==
    IF IsValidationError(error)
    THEN [status |-> error.statusCode,
          jsonBody |-> [success |-> FALSE, message |-> error.message,
                        errors |-> error.validationErrors]]
    ELSE IF IsOrderProcessingError(error)
    THEN [status |-> error.statusCode,
          jsonBody |-> [success |-> FALSE, message |-> error.message,
                        code |-> error.code]]
    ELSE [status |-> 500,
          jsonBody |-> [success |-> FALSE, message |-> "Internal server error"]]

(***************************************************************************)
(* Request payloads.  A parsed body is a record                            *)
(*   kind     "null" (falsy body), "number" (a truthy non-object) or       *)
(*            "object"                                                     *)
(*   missing  the schema keys absent from the object                       *)
(*   one field per schema key (the default value when the key is missing)  *)
(***************************************************************************)
\* the keys of CreateOrderSchema, in the order of the schema
Fields == <<"employeeId", "bikeModel", "startDate", "endDate", "price",
            "currency", "companyId">>

FieldSet == {Fields[i] : i \in DOMAIN Fields}

\* the date strings of the model: two ISO datetimes, a date-only string that
\* new Date() parses and z.string().datetime() rejects, and garbage
DateStrings == {"2024-01-01T00:00:00Z", "2024-01-02T00:00:00Z", "2024-01-03",
                "not-a-date"}

\* NaN, the time value of an Invalid Date
NaN == -1

\* new Date(s).getTime(), in days since 2023-12-31
DateValue(s) ==
    CASE s = "2024-01-01T00:00:00Z" -> 1
      [] s = "2024-01-02T00:00:00Z" -> 2
      [] s = "2024-01-03" -> 3
      [] OTHER -> NaN

\* the relational operator > on two Date objects: false when either is invalid
DateGreater(a, b) == a # NaN /\ b # NaN /\ a > b

\* z.string().datetime(): ISO 8601 with time and Z
IsDatetime(s) == s \in {"2024-01-01T00:00:00Z", "2024-01-02T00:00:00Z"}

\* String.prototype.length for the strings of the model
StrLen(s) ==
    CASE s = "" -> 0
      [] s = "M" -> 1
      [] s = "c1" -> 2
      [] s = "US" -> 2
      [] s = "USD" -> 3
      [] s = "emp-1" -> 5
      [] OTHER -> 9

ObjectBodies ==
    { b \in [kind : {"object"}, missing : SUBSET FieldSet,
             employeeId : {"", "emp-1"}, bikeModel : {"", "M"},
             startDate : DateStrings, endDate : DateStrings,
             price : {0, 10}, currency : {"US", "USD"},
             companyId : {"", "c1"}] :
        /\ "employeeId" \in b.missing => b.employeeId = ""
        /\ "bikeModel" \in b.missing => b.bikeModel = ""
        /\ "startDate" \in b.missing => b.startDate = "not-a-date"
        /\ "endDate" \in b.missing => b.endDate = "not-a-date"
        /\ "price" \in b.missing => b.price = 0
        /\ "currency" \in b.missing => b.currency = "US"
        /\ "companyId" \in b.missing => b.companyId = "" }

NonObjectBody(kind) ==
    [kind |-> kind, missing |-> FieldSet, employeeId |-> "", bikeModel |-> "",
     startDate |-> "not-a-date", endDate |-> "not-a-date", price |-> 0,
     currency |-> "US", companyId |-> ""]

\* what request.json() can resolve to
Bodies == ObjectBodies \cup {NonObjectBody("null"), NonObjectBody("number")}

\* the value of requestBody before request.json() has resolved
NoBody == NonObjectBody("none")

(***************************************************************************)
(* CreateOrderSchema.safeParse.  An issue is [path, message, fatal]:       *)
(* a type issue (missing key) is fatal, it aborts the object so that the   *)
(* refinement is not run; a failed check (min, datetime, positive, length) *)
(* is not, the refinement still runs on the parsed value.                  *)
(***************************************************************************)
Issue(path, message, fatal) == [path |-> path, message |-> message, fatal |-> fatal]

\* the issues of one key of the z.object
FieldIssues(b, f) ==
    IF f \in b.missing THEN << Issue(f, "Required", TRUE) >>
    ELSE CASE f = "employeeId" ->
                IF StrLen(b.employeeId) >= 1 THEN << >>
                ELSE << Issue(f, "Employee ID is required", FALSE) >>
           [] f = "bikeModel" ->
                IF StrLen(b.bikeModel) >= 1 THEN << >>
                ELSE << Issue(f, "Bike model is required", FALSE) >>
           [] f = "startDate" ->
                IF IsDatetime(b.startDate) THEN << >>
                ELSE << Issue(f, "Invalid start date format", FALSE) >>
           [] f = "endDate" ->
                IF IsDatetime(b.endDate) THEN << >>
                ELSE << Issue(f, "Invalid end date format", FALSE) >>
           [] f = "price" ->
                IF b.price > 0 THEN << >>
                ELSE << Issue(f, "Price must be positive", FALSE) >>
           [] f = "currency" ->
                IF StrLen(b.currency) = 3 THEN << >>
                ELSE << Issue(f, "Currency must be 3 characters", FALSE) >>
           [] f = "companyId" ->
                IF StrLen(b.companyId) >= 1 THEN << >>
                ELSE << Issue(f, "Company ID is required", FALSE) >>

\* the issues of the keys Fields[i..], in schema order
RECURSIVE ObjectIssues(_, _)
ObjectIssues(b, i) ==
    IF i > Len(Fields) THEN << >>
    ELSE FieldIssues(b, Fields[i]) \o ObjectIssues(b, i + 1)

\* the predicate given to .refine(): end > start
RefineHolds(b) == DateGreater(DateValue(b.endDate), DateValue(b.startDate))

\* a schema whose refinement runs only on an object without any issue
SchemaIssuesRefineOnClean(b) ==
    IF b.kind # "object"
    THEN << Issue("", "Expected object, received " \o b.kind, TRUE) >>
    ELSE LET inner == ObjectIssues(b, 1)
         IN  IF inner # << >> \/ RefineHolds(b) THEN inner
             ELSE << Issue("endDate", "End date must be after start date", FALSE) >>

\* the issue list of CreateOrderSchema.safeParse(b); empty when it succeeds
SchemaIssues(b) ==
    IF b.kind # "object"
    THEN << Issue("", "Expected object, received " \o b.kind, TRUE) >>
    ELSE LET inner == ObjectIssues(b, 1)
             aborted == \E k \in DOMAIN inner : inner[k].fatal
         IN  IF aborted \/ RefineHolds(b) THEN inner
             ELSE inner \o << Issue("endDate", "End date must be after start date", FALSE) >>

\* the message of the issue without its path
FormatIssueMessageOnly(err) == err.message

\* `${err.path.join('.')}: ${err.message}`
FormatIssue(err) == err.path \o ": " \o err.message

\* a map that stops after the first issue
FormatIssuesFirstOnly(issues) == << FormatIssue(issues[1]) >>

\* validFields.error.errors.map(...)
FormatIssues(issues) == [k \in DOMAIN issues |-> FormatIssue(issues[k])]

\* validFields.data: the seven keys of the parsed object
SchemaData(b) ==
    [employeeId |-> b.employeeId, bikeModel |-> b.bikeModel,
     startDate |-> b.startDate, endDate |-> b.endDate, price |-> b.price,
     currency |-> b.currency, companyId |-> b.companyId]

NoInput == SchemaData(NoBody)

(***************************************************************************)
(* createOrder: the record built from a validated input.  Dates are time   *)
(* values; createdAt and updatedAt are two readings of the clock.          *)
(***************************************************************************)
\* the reading of the clock when the request is processed
Now == 100

createOrder(input, id, createdAt, updatedAt) ==
    [id |-> id, employeeId |-> input.employeeId, bikeModel |-> input.bikeModel,
     startDate |-> DateValue(input.startDate), endDate |-> DateValue(input.endDate),
     status |-> "PENDING", price |-> input.price, currency |-> input.currency,
     companyId |-> input.companyId, createdAt |-> createdAt, updatedAt |-> updatedAt]

NoOrder == createOrder(NoInput, "", 0, 0)

(***************************************************************************)
(* Gateways: what storeOrder uploads and what sendOrderMessage sends.      *)
(***************************************************************************)
\* Date.prototype.toISOString as used by JSON.stringify: a string, not a time value
ToISOString(t) == "iso:" \o ToString(t)

\* JSON.stringify(order, null, 2): the record with its four dates as strings
OrderJson(o) ==
    [id |-> o.id, employeeId |-> o.employeeId, bikeModel |-> o.bikeModel,
     startDate |-> ToISOString(o.startDate), endDate |-> ToISOString(o.endDate),
     status |-> o.status, price |-> o.price, currency |-> o.currency,
     companyId |-> o.companyId, createdAt |-> ToISOString(o.createdAt),
     updatedAt |-> ToISOString(o.updatedAt)]

\* `${order.companyId}/${order.id}.json`
BlobName(companyId, id) == companyId \o "/" \o id \o ".json"

\* a blob named after the employee: `${order.companyId}/${order.employeeId}.json`
OrderBlobKeyedByEmployee(o) ==
    [name |-> BlobName(o.companyId, o.employeeId), data |-> OrderJson(o),
     metadata |-> [companyId |-> o.companyId, employeeId |-> o.employeeId,
                   status |-> o.status]]

\* the blob written by storeOrder
OrderBlob(o) ==
    [name |-> BlobName(o.companyId, o.id), data |-> OrderJson(o),
     metadata |-> [companyId |-> o.companyId, employeeId |-> o.employeeId,
                   status |-> o.status]]

\* how blockBlobClient.upload can end: resolved; rejected with nothing
\* written; rejected although the service wrote the blob
UploadOutcomes == {"ok", "failed", "wroteThenFailed"}

\* an upload that writes nothing
UploadDiscard(store, blob) == store

\* blockBlobClient.upload: the blob of that name is created or replaced
Upload(store, blob) == {x \in store : x.name # blob.name} \cup {blob}

\* a message whose correlationId is `${order.id}-${order.companyId}`
OrderMessageSwappedCorrelation(o) ==
    [body |-> [orderId |-> o.id, companyId |-> o.companyId,
               employeeId |-> o.employeeId, status |-> o.status,
               price |-> o.price, currency |-> o.currency],
     messageId |-> o.id, correlationId |-> o.id \o "-" \o o.companyId,
     contentType |-> "application/json"]

\* the message built by sendOrderMessage
OrderMessage(o) ==
    [body |-> [orderId |-> o.id, companyId |-> o.companyId,
               employeeId |-> o.employeeId, status |-> o.status,
               price |-> o.price, currency |-> o.currency],
     messageId |-> o.id, correlationId |-> o.companyId \o "-" \o o.id,
     contentType |-> "application/json"]

\* how MessagingService.close() can end: both closes resolve, sender.close()
\* rejects, or serviceBusClient.close() rejects
CloseOutcomes == {"ok", "senderFails", "clientFails"}

\* a close() that closes the sender only
CloseHandlesSenderOnly(cc, outcome) ==
    [sender |-> cc.sender + 1, client |-> cc.client]

\* the calls close() makes: await sender.close(), then, if that resolved,
\* await serviceBusClient.close(); cc counts the calls of each
CloseHandles(cc, outcome) ==
    [sender |-> cc.sender + 1,
     client |-> IF outcome = "senderFails" THEN cc.client ELSE cc.client + 1]

\* connection strings of the environment; "" stands for unset or empty
StorageConnections == {"", "invalid-connection-string", "UseDevelopmentStorage=true"}

ServiceBusConnections == {"", "Endpoint=sb://test.servicebus.windows.net/"}

\* the values of SKIP_SERVICE_BUS in the environment; "" stands for unset
SkipFlags == {"", "true"}

\* BlobServiceClient.fromConnectionString accepts the string
StorageConnectionValid(c) == c = "UseDevelopmentStorage=true"

\* new ServiceBusClient accepts the string
ServiceBusConnectionValid(c) == c = "Endpoint=sb://test.servicebus.windows.net/"

(***************************************************************************)
(* withRetry: policy and delay.                                            *)
(***************************************************************************)
\* defaults with a base delay of 2000 ms
DEFAULT_RETRY_OPTIONS_DoubleBase ==
    [maxAttempts |-> 3, baseDelay |-> 2000, maxDelay |-> 10000, backoffMultiplier |-> 2]

DEFAULT_RETRY_OPTIONS ==
    [maxAttempts |-> 3, baseDelay |-> 1000, maxDelay |-> 10000, backoffMultiplier |-> 2]

\* { ...DEFAULT_RETRY_OPTIONS, ...options }: options is a record of some of the keys
MergeOptions(options) ==
    [k \in DOMAIN DEFAULT_RETRY_OPTIONS |->
        IF k \in DOMAIN options THEN options[k] ELSE DEFAULT_RETRY_OPTIONS[k]]

\* an initializeContainer budget of three attempts
InitOptionsThree == [maxAttempts |-> 3]

\* the options processOrder passes for each gateway call
InitOptions == [maxAttempts |-> 2]

StoreOptions == [maxAttempts |-> 3]

SendOptions == [maxAttempts |-> 3]

\* the last-attempt test taken one attempt early
IsLastAttemptEarly(cfg, n) == n >= cfg.maxAttempts - 1

\* attempt === config.maxAttempts
IsLastAttempt(cfg, n) == n = cfg.maxAttempts

\* a delay whose exponent is the attempt number
RetryDelayLateExponent(cfg, n) ==
    Min(cfg.baseDelay * Pow(cfg.backoffMultiplier, n), cfg.maxDelay)

\* Math.min(baseDelay * Math.pow(backoffMultiplier, attempt - 1), maxDelay)
RetryDelay(cfg, n) == Min(cfg.baseDelay * Pow(cfg.backoffMultiplier, n - 1), cfg.maxDelay)

\* the failures the operation of SpecRetry raises, and its results
OpErrors == {PlainError("E" \o ToString(i)) : i \in 1..NumOpErrors}

OpResults == {"r1", "r2"}

\* the policies a caller of withRetry passes in SpecRetry
FullPolicies ==
    [maxAttempts : 0..MaxPolicyAttempts, baseDelay : {1000, 4000},
     maxDelay : {3000, 10000}, backoffMultiplier : {2, 3}]

Policies ==
    {[k \in keys |-> p[k]] : keys \in SUBSET DOMAIN DEFAULT_RETRY_OPTIONS, p \in FullPolicies}

(***************************************************************************)
(* State.                                                                  *)
(***************************************************************************)
VARIABLES
    pc,             \* position: "parse", "validate", "create", "newStorage",
                    \* "newMessaging", "init", "store", "send", "sleep",
                    \* "finally", "catch", "done" (processOrder); "call",
                    \* "operation", "sleep", "returned", "raised" (withRetry alone)
    stage,          \* the operation the running withRetry wraps
    env,            \* process.env
    requestBody,    \* what request.json() resolved to
    validatedInput, \* validFields.data
    order,          \* the record built by createOrder
    error,          \* the failure in flight (thrown, not yet handled)
    pending,        \* how the inner try block completed: "none", "return", "throw"
    result,         \* the response the inner try block returns
    response,       \* the response processOrder returned
    handled,        \* number of calls of handleError
    calls,          \* the calls of gateway methods (and of the operation), in order
    closeCalls,     \* number of sender.close() and serviceBusClient.close() calls
    blobs,          \* the "orders" container
    queue,          \* the messages accepted by the "order-processing" queue
    config,         \* withRetry: the merged policy
    attempt,        \* withRetry: the loop counter
    lastError,      \* withRetry: the last failure caught
    delays,         \* withRetry: the sleeps of the current call, in order
    retValue,       \* withRetry: the value returned to the caller
    found,          \* what the last getOrder returned, and for which blob
    other           \* the local state of a second processOrder execution,
                    \* suspended while this one runs

vars == <<pc, stage, env, requestBody, validatedInput, order, error, pending,
          result, response, handled, calls, closeCalls, blobs, queue, config,
          attempt, lastError, delays, retValue, found, other>>

\* no failure in flight
NoError ==
    [name |-> "none", message |-> "", code |-> "", statusCode |-> 0,
     validationErrors |-> << >>]

\* no response yet
NoResponse == [status |-> 0, jsonBody |-> [success |-> FALSE]]

\* getOrder has not been called
NoLookup == [outcome |-> "none", key |-> "", value |-> OrderJson(NoOrder)]

\* one entry of calls
Call(op, ok, err, res) == [op |-> op, ok |-> ok, err |-> err, res |-> res]

\* how many times a method was called
Count(op) == Cardinality({i \in DOMAIN calls : calls[i].op = op})

\* how many calls of a method succeeded
CountOk(op) == Cardinality({i \in DOMAIN calls : calls[i].op = op /\ calls[i].ok})

\* the local state of a processOrder execution that has not started; req
\* numbers the execution (0: there is no second execution)
InitialFrame(req) ==
    [req |-> req, pc |-> "parse", stage |-> "none", requestBody |-> NoBody,
     validatedInput |-> NoInput, order |-> NoOrder, error |-> NoError,
     pending |-> "none", result |-> NoResponse, response |-> NoResponse,
     handled |-> 0, calls |-> << >>, closeCalls |-> [sender |-> 0, client |-> 0],
     config |-> DEFAULT_RETRY_OPTIONS, attempt |-> 0, lastError |-> Undefined,
     delays |-> << >>, retValue |-> ""]

\* the local state of the running execution: its position, its locals
\* (requestBody, validatedInput, order, the two services, the result), and
\* the locals of the withRetry call it is in
Frame ==
    [req |-> 3 - other.req, pc |-> pc, stage |-> stage, requestBody |-> requestBody,
     validatedInput |-> validatedInput, order |-> order, error |-> error,
     pending |-> pending, result |-> result, response |-> response,
     handled |-> handled, calls |-> calls, closeCalls |-> closeCalls,
     config |-> config, attempt |-> attempt, lastError |-> lastError,
     delays |-> delays, retValue |-> retValue]

(***************************************************************************)
(* withRetry, as steps on <<pc, stage, config, attempt, lastError, delays, *)
(* error, pending>>.                                                       *)
(***************************************************************************)
\* a withRetry that ends without throwing: the caller sees a normal return
RaiseAsReturn(e, st) ==
    /\ error' = e
    /\ IF st = "operation"
       THEN pc' = "returned" /\ pending' = pending
       ELSE pc' = "finally" /\ pending' = "throw"

\* withRetry throws e: to the caller (withRetry alone) or into the finally
\* block of processOrder
Raise(e, st) ==
    /\ error' = e
    /\ IF st = "operation"
       THEN pc' = "raised" /\ pending' = pending
       ELSE pc' = "finally" /\ pending' = "throw"

\* a withRetry whose attempt counter is shared between calls
WithRetryEnterSharedCounter(options, st) ==
    /\ config' = MergeOptions(options)
    /\ attempt' = IF attempt = 0 THEN 1 ELSE attempt
    /\ lastError' = Undefined
    /\ delays' = << >>
    /\ stage' = st
    /\ IF attempt' <= config'.maxAttempts
       THEN pc' = st /\ UNCHANGED <<error, pending>>
       ELSE Raise(lastError', st)

\* entry of withRetry(op, options): merge the policy, start the loop
WithRetryEnter(options, st) ==
    /\ config' = MergeOptions(options)
    /\ attempt' = 1
    /\ lastError' = Undefined
    /\ delays' = << >>
    /\ stage' = st
    /\ IF 1 <= config'.maxAttempts
       THEN pc' = st /\ UNCHANGED <<error, pending>>
       ELSE Raise(lastError', st)

\* a catch block that swallows the last failure: the stage is treated as done
WithRetryCatchSwallow(e) ==
    IF IsLastAttempt(config, attempt) /\ stage = "init"
    THEN WithRetryEnter(StoreOptions, "store")
    ELSE IF IsLastAttempt(config, attempt) /\ stage = "store"
    THEN WithRetryEnter(SendOptions, "send")
    ELSE /\ lastError' = e
         /\ UNCHANGED <<stage, config, attempt>>
         /\ IF IsLastAttempt(config, attempt)
            THEN Raise(lastError', stage) /\ delays' = delays
            ELSE /\ delays' = Append(delays, RetryDelay(config, attempt))
                 /\ pc' = "sleep"
                 /\ UNCHANGED <<error, pending>>

\* the catch block of the loop, the operation having failed with e
WithRetryCatch(e) ==
    /\ lastError' = e
    /\ UNCHANGED <<stage, config, attempt>>
    /\ IF IsLastAttempt(config, attempt)
       THEN Raise(lastError', stage) /\ delays' = delays
       ELSE /\ delays' = Append(delays, RetryDelay(config, attempt))
            /\ pc' = "sleep"
            /\ UNCHANGED <<error, pending>>

\* the sleep is over: attempt++ and the loop condition
Sleep ==
    /\ pc = "sleep"
    /\ attempt' = attempt + 1
    /\ IF attempt' <= config.maxAttempts
       THEN pc' = stage /\ UNCHANGED <<error, pending>>
       ELSE Raise(lastError, stage)
    /\ UNCHANGED <<stage, env, found, other, requestBody, validatedInput, order, result,
                   response, handled, calls, closeCalls, blobs, queue, config,
                   lastError, delays, retValue>>

(***************************************************************************)
(* processOrder.                                                           *)
(***************************************************************************)
\* a test of the body that no value fails
IsFalsyNever(b) == FALSE

\* !body
IsFalsy(b) == b.kind = "null"

\* a catch block without the instanceof test: every failure becomes the
\* invalid-JSON failure
ParseCatchWrapAll(e) ==
    ValidationError("Invalid JSON in request body",
                    << "Request body must be valid JSON" >>)

\* the catch block of parseRequestBody: a ValidationError passes, anything
\* else becomes the invalid-JSON failure
ParseCatch(e) ==
    IF IsValidationError(e) THEN e
    ELSE ValidationError("Invalid JSON in request body",
                         << "Request body must be valid JSON" >>)

\* await parseRequestBody(request)
ParseRequestBody ==
    /\ pc = "parse"
    /\ \/ /\ error' = ParseCatch(PlainError("Unexpected token in JSON"))
          /\ pc' = "catch"
          /\ UNCHANGED requestBody
       \/ \E b \in Bodies :
            /\ requestBody' = b
            /\ IF IsFalsy(b)
               THEN /\ error' = ParseCatch(ValidationError("Request body is required",
                                               << "Request body cannot be empty" >>))
                    /\ pc' = "catch"
               ELSE pc' = "validate" /\ UNCHANGED error
    /\ UNCHANGED <<stage, env, found, other, validatedInput, order, pending, result, response,
                   handled, calls, closeCalls, blobs, queue, config, attempt,
                   lastError, delays, retValue>>

\* validateInput(requestBody)
ValidateInput ==
    /\ pc = "validate"
    /\ LET issues == SchemaIssues(requestBody)
       IN  IF issues # << >>
           THEN /\ error' = ValidationError("Validation failed", FormatIssues(issues))
                /\ pc' = "catch"
                /\ UNCHANGED validatedInput
           ELSE /\ validatedInput' = SchemaData(requestBody)
                /\ pc' = "create"
                /\ UNCHANGED error
    /\ UNCHANGED <<stage, env, found, other, requestBody, order, pending, result, response,
                   handled, calls, closeCalls, blobs, queue, config, attempt,
                   lastError, delays, retValue>>

\* const order = createOrder(validatedInput): uuidv4() and two clock readings
CreateOrder ==
    /\ pc = "create"
    /\ \E id \in Ids, updatedAt \in {Now, Now + 1} :
            order' = createOrder(validatedInput, id, Now, updatedAt)
    /\ pc' = "newStorage"
    /\ UNCHANGED <<stage, env, found, other, requestBody, validatedInput, error, pending,
                   result, response, handled, calls, closeCalls, blobs, queue,
                   config, attempt, lastError, delays, retValue>>

\* new StorageService(process.env.AzureWebJobsStorage || '')
NewStorageService ==
    /\ pc = "newStorage"
    /\ IF StorageConnectionValid(env.AzureWebJobsStorage)
       THEN pc' = "newMessaging" /\ UNCHANGED error
       ELSE pc' = "catch" /\ error' = PlainError("Invalid storage connection string")
    /\ UNCHANGED <<stage, env, found, other, requestBody, validatedInput, order, pending,
                   result, response, handled, calls, closeCalls, blobs, queue,
                   config, attempt, lastError, delays, retValue>>

\* new MessagingService(process.env.ServiceBusConnectionString || ''), then
\* the inner try block starts with withRetry(initializeContainer, {maxAttempts: 2})
NewMessagingService ==
    /\ pc = "newMessaging"
    /\ IF ServiceBusConnectionValid(env.ServiceBusConnectionString)
       THEN WithRetryEnter(InitOptions, "init")
       ELSE /\ pc' = "catch"
            /\ error' = PlainError("Invalid Service Bus connection string")
            /\ UNCHANGED <<stage, config, attempt, lastError, delays, pending>>
    /\ UNCHANGED <<env, found, other, requestBody, validatedInput, order, result, response,
                   handled, calls, closeCalls, blobs, queue, retValue>>

\* one attempt of storageService.initializeContainer()
InitializeContainer ==
    /\ pc = "init"
    /\ \E ok \in BOOLEAN :
         LET e == OrderProcessingError("Failed to initialize storage container",
                                       "STORAGE_INIT_ERROR")
         IN  /\ calls' = Append(calls, Call("initializeContainer", ok,
                                            IF ok THEN NoError ELSE e, ""))
             /\ IF ok THEN WithRetryEnter(StoreOptions, "store")
                ELSE WithRetryCatch(e)
    /\ UNCHANGED <<env, found, other, requestBody, validatedInput, order, result, response,
                   handled, closeCalls, blobs, queue, retValue>>

\* one attempt of storageService.storeOrder(order, context): the upload
\* resolves, or it rejects, before the service wrote the blob or after it
\* did (the reply was lost); every rejection becomes STORAGE_ERROR
StoreOrder ==
    /\ pc = "store"
    /\ \E outcome \in UploadOutcomes :
         LET e == OrderProcessingError("Failed to store order in storage",
                                       "STORAGE_ERROR")
             ok == outcome = "ok"
             wrote == outcome # "failed"
         IN  /\ calls' = Append(calls, Call("storeOrder", ok,
                                            IF ok THEN NoError ELSE e,
                                            IF wrote THEN "wrote" ELSE ""))
             /\ blobs' = IF wrote THEN Upload(blobs, OrderBlob(order)) ELSE blobs
             /\ IF ok
                THEN WithRetryEnter(SendOptions, "send")
                ELSE WithRetryCatch(e)
    /\ UNCHANGED <<env, found, other, requestBody, validatedInput, order, result, response,
                   handled, closeCalls, queue, retValue>>

\* a success response with status 200 in place of 201
SuccessResponseOk(o) ==
    [status |-> 200,
     jsonBody |-> [success |-> TRUE, orderId |-> o.id,
                   message |-> "Order processed successfully"]]

\* the 201 response built after the three gateway calls
SuccessResponse(o) ==
    [status |-> 201,
     jsonBody |-> [success |-> TRUE, orderId |-> o.id,
                   message |-> "Order processed successfully"]]

\* one attempt of messagingService.sendOrderMessage(order, context); when it
\* succeeds the inner try block returns the 201 response
SendOrderMessage ==
    /\ pc = "send"
    /\ \E ok \in BOOLEAN :
         LET e == OrderProcessingError("Failed to send order message",
                                       "MESSAGING_ERROR")
         IN  /\ calls' = Append(calls, Call("sendOrderMessage", ok,
                                            IF ok THEN NoError ELSE e, ""))
             /\ IF ok
                THEN /\ queue' = Append(queue, OrderMessage(order))
                     /\ result' = SuccessResponse(order)
                     /\ pending' = "return"
                     /\ pc' = "finally"
                     /\ UNCHANGED <<stage, config, attempt, lastError, delays, error>>
                ELSE /\ UNCHANGED <<queue, result>>
                     /\ WithRetryCatch(e)
    /\ UNCHANGED <<env, found, other, requestBody, validatedInput, order, response, handled,
                   closeCalls, blobs, retValue>>

\* finally { await messagingService.close() }: sender.close() then
\* serviceBusClient.close(); a failure of either replaces the completion of
\* the try block
Close ==
    /\ pc = "finally"
    /\ \E outcome \in CloseOutcomes :
         /\ calls' = Append(calls, Call("close", outcome = "ok",
                                        IF outcome = "ok" THEN NoError
                                        ELSE PlainError("Close failed"), ""))
         /\ closeCalls' = CloseHandles(closeCalls, outcome)
         /\ IF outcome = "ok"
            THEN IF pending = "return"
                 THEN pc' = "done" /\ response' = result /\ UNCHANGED <<error, pending>>
                 ELSE pc' = "catch" /\ UNCHANGED <<response, error, pending>>
            ELSE /\ pc' = "catch"
                 /\ error' = PlainError("Close failed")
                 /\ pending' = "throw"
                 /\ UNCHANGED response
    /\ UNCHANGED <<stage, env, found, other, requestBody, validatedInput, order, result,
                   handled, blobs, queue, config, attempt, lastError, delays,
                   retValue>>

\* catch (error) { return handleError(error, context) }
Catch ==
    /\ pc = "catch"
    /\ response' = handleError(error)
    /\ handled' = handled + 1
    /\ pc' = "done"
    /\ UNCHANGED <<stage, env, found, other, requestBody, validatedInput, order, error,
                   pending, result, calls, closeCalls, blobs, queue, config,
                   attempt, lastError, delays, retValue>>

Init ==
    /\ pc = "parse"
    /\ stage = "none"
    /\ env \in [AzureWebJobsStorage : StorageConnections,
                ServiceBusConnectionString : ServiceBusConnections,
                SKIP_SERVICE_BUS : SkipFlags]
    /\ requestBody = NoBody
    /\ validatedInput = NoInput
    /\ order = NoOrder
    /\ error = NoError
    /\ pending = "none"
    /\ result = NoResponse
    /\ response = NoResponse
    /\ handled = 0
    /\ calls = << >>
    /\ closeCalls = [sender |-> 0, client |-> 0]
    /\ blobs = {}
    /\ queue = << >>
    /\ config = DEFAULT_RETRY_OPTIONS
    /\ attempt = 0
    /\ lastError = Undefined
    /\ delays = << >>
    /\ retValue = ""
    /\ found = NoLookup
    /\ other = InitialFrame(0)

Next ==
    \/ ParseRequestBody
    \/ ValidateInput
    \/ CreateOrder
    \/ NewStorageService
    \/ NewMessagingService
    \/ InitializeContainer
    \/ StoreOrder
    \/ SendOrderMessage
    \/ Sleep
    \/ Close
    \/ Catch

Spec == Init /\ [][Next]_vars

\* processOrder when every awaited promise settles: request.json(), each
\* gateway call, each setTimeout of withRetry and close() complete, and the
\* synchronous code between two awaits runs to completion
InitFair == Init /\ env.SKIP_SERVICE_BUS = ""

SpecFair == InitFair /\ [][Next]_vars /\ WF_vars(Next)

(***************************************************************************)
(* Two processOrder executions on one worker.  One runs, the other is      *)
(* suspended; Switch hands the thread to the other one.  The process       *)
(* environment, the container and the queue are common to both; everything *)
(* processOrder and withRetry declare is local to the execution.  (The     *)
(* event loop switches at an await only: switching at any step covers      *)
(* every real interleaving.)                                               *)
(***************************************************************************)
\* failed calls allowed per execution when two executions are interleaved
MaxTwoFailures == 1

\* the bodies sent when two executions are interleaved: a valid payload, one
\* that fails the schema, an empty body
TwoBodies ==
    {b \in Bodies :
        \/ b.kind = "null"
        \/ /\ b.kind = "object" /\ b.missing = {}
           /\ b.employeeId = "emp-1" /\ b.bikeModel = "M"
           /\ b.startDate = "2024-01-01T00:00:00Z"
           /\ b.endDate = "2024-01-02T00:00:00Z"
           /\ b.price = 10 /\ b.currency = "USD"}

\* a service created at module level: the resumed execution finds the
\* handles as the other execution left them
ResumedServiceShared(current, suspended) == current

\* const storageService / const messagingService are locals of the
\* execution: when it resumes it has its own handles
ResumedService(current, suspended) == suspended

\* the running execution is suspended and the other one resumes
Switch ==
    /\ other.req # 0
    /\ other' = Frame
    /\ pc' = other.pc
    /\ stage' = other.stage
    /\ requestBody' = other.requestBody
    /\ validatedInput' = other.validatedInput
    /\ order' = other.order
    /\ error' = other.error
    /\ pending' = other.pending
    /\ result' = other.result
    /\ response' = other.response
    /\ handled' = other.handled
    /\ calls' = other.calls
    /\ closeCalls' = ResumedService(closeCalls, other.closeCalls)
    /\ config' = other.config
    /\ attempt' = other.attempt
    /\ lastError' = other.lastError
    /\ delays' = other.delays
    /\ retValue' = other.retValue
    /\ UNCHANGED <<env, found, blobs, queue>>

\* a step of the running execution, within the bounds of this specification
StepTwo ==
    /\ Next
    /\ requestBody' \in TwoBodies \cup {NoBody}
    /\ Cardinality({i \in DOMAIN calls' : ~calls'[i].ok}) <= MaxTwoFailures

InitTwo ==
    /\ pc = "parse"
    /\ stage = "none"
    /\ env = [AzureWebJobsStorage |-> "UseDevelopmentStorage=true",
              ServiceBusConnectionString |-> "Endpoint=sb://test.servicebus.windows.net/",
              SKIP_SERVICE_BUS |-> ""]
    /\ requestBody = NoBody
    /\ validatedInput = NoInput
    /\ order = NoOrder
    /\ error = NoError
    /\ pending = "none"
    /\ result = NoResponse
    /\ response = NoResponse
    /\ handled = 0
    /\ calls = << >>
    /\ closeCalls = [sender |-> 0, client |-> 0]
    /\ blobs = {}
    /\ queue = << >>
    /\ config = DEFAULT_RETRY_OPTIONS
    /\ attempt = 0
    /\ lastError = Undefined
    /\ delays = << >>
    /\ retValue = ""
    /\ found = NoLookup
    /\ other = InitialFrame(2)

NextTwo ==
    \/ StepTwo
    \/ Switch

SpecTwo == InitTwo /\ [][NextTwo]_vars

(***************************************************************************)
(* withRetry called directly, with any policy and any operation.           *)
(***************************************************************************)
\* withRetry(operation, options, context)
CallWithRetry ==
    /\ pc = "call"
    /\ \E options \in Policies : WithRetryEnter(options, "operation")
    /\ UNCHANGED <<env, found, other, requestBody, validatedInput, order, result, response,
                   handled, calls, closeCalls, blobs, queue, retValue>>

\* return await operation(): the operation resolves with a result or rejects
Operation ==
    /\ pc = "operation"
    /\ \/ \E r \in OpResults :
            /\ calls' = Append(calls, Call("operation", TRUE, NoError, r))
            /\ retValue' = r
            /\ pc' = "returned"
            /\ UNCHANGED <<stage, config, attempt, lastError, delays, error, pending>>
       \/ \E e \in OpErrors :
            /\ calls' = Append(calls, Call("operation", FALSE, e, ""))
            /\ WithRetryCatch(e)
            /\ UNCHANGED retValue
    /\ UNCHANGED <<env, found, other, requestBody, validatedInput, order, result, response,
                   handled, closeCalls, blobs, queue>>

InitRetry ==
    /\ pc = "call"
    /\ stage = "none"
    /\ env = [AzureWebJobsStorage |-> "", ServiceBusConnectionString |-> "",
              SKIP_SERVICE_BUS |-> ""]
    /\ requestBody = NoBody
    /\ validatedInput = NoInput
    /\ order = NoOrder
    /\ error = NoError
    /\ pending = "none"
    /\ result = NoResponse
    /\ response = NoResponse
    /\ handled = 0
    /\ calls = << >>
    /\ closeCalls = [sender |-> 0, client |-> 0]
    /\ blobs = {}
    /\ queue = << >>
    /\ config = DEFAULT_RETRY_OPTIONS
    /\ attempt = 0
    /\ lastError = Undefined
    /\ delays = << >>
    /\ retValue = ""
    /\ found = NoLookup
    /\ other = InitialFrame(0)

NextRetry ==
    \/ CallWithRetry
    \/ Operation
    \/ Sleep

SpecRetry == InitRetry /\ [][NextRetry]_vars

(***************************************************************************)
(* StorageService called directly: storeOrder and getOrder on the "orders" *)
(* container, for several tenants.                                         *)
(***************************************************************************)
\* number of gateway calls made on the service
MaxLookupCalls == 4

\* the tenants of the container
LookupCompanies == {"c1", "c2"}

\* the records a caller stores: any id, any tenant, two prices
LookupOrders ==
    {createOrder([employeeId |-> "emp-1", bikeModel |-> "M",
                  startDate |-> "2024-01-01T00:00:00Z",
                  endDate |-> "2024-01-02T00:00:00Z", price |-> price,
                  currency |-> "USD", companyId |-> companyId],
                 id, Now, Now) :
        id \in Ids, companyId \in LookupCompanies, price \in {10, 20}}

\* storageService.storeOrder(order, context) called directly: the upload
\* succeeds or the call throws STORAGE_ERROR
StoreOrderDirect ==
    /\ pc = "lookup"
    /\ Len(calls) < MaxLookupCalls
    /\ \E o \in LookupOrders, outcome \in UploadOutcomes :
         LET e == OrderProcessingError("Failed to store order in storage",
                                       "STORAGE_ERROR")
             ok == outcome = "ok"
             wrote == outcome # "failed"
         IN  /\ calls' = Append(calls, Call("storeOrder", ok,
                                            IF ok THEN NoError ELSE e,
                                            IF wrote THEN "wrote" ELSE ""))
             /\ blobs' = IF wrote THEN Upload(blobs, OrderBlob(o)) ELSE blobs
             /\ error' = IF ok THEN NoError ELSE e
    /\ UNCHANGED <<pc, stage, env, found, other, requestBody, validatedInput, order,
                   pending, result, response, handled, closeCalls, queue,
                   config, attempt, lastError, delays, retValue>>

\* storageService.getOrder(orderId, companyId): download, streamToString
\* and JSON.parse inside one try; the catch returns null.  The download
\* rejects when the blob does not exist, and it or the stream can fail in
\* transfer when the blob exists.  JSON.parse leaves the dates as the strings
\* JSON.stringify wrote.
GetOrder ==
    /\ pc = "lookup"
    /\ Len(calls) < MaxLookupCalls
    /\ \E orderId \in Ids, companyId \in LookupCompanies,
          transfer \in {"ok", "fails"} :
         LET blobName == BlobName(companyId, orderId)
             hit == {b \in blobs : b.name = blobName}
             ok == hit # {} /\ transfer = "ok"
         IN  /\ calls' = Append(calls, Call("getOrder", ok,
                                            IF ok THEN NoError
                                            ELSE PlainError("download failed"), ""))
             /\ found' = IF ok
                         THEN [outcome |-> "record", key |-> blobName,
                               value |-> (CHOOSE b \in hit : TRUE).data]
                         ELSE [outcome |-> "null", key |-> blobName,
                               value |-> OrderJson(NoOrder)]
    /\ UNCHANGED <<pc, stage, env, other, requestBody, validatedInput, order,
                   error, pending, result, response, handled, closeCalls, blobs,
                   queue, config, attempt, lastError, delays, retValue>>

InitLookup ==
    /\ pc = "lookup"
    /\ stage = "none"
    /\ env = [AzureWebJobsStorage |-> "UseDevelopmentStorage=true",
              ServiceBusConnectionString |-> "", SKIP_SERVICE_BUS |-> ""]
    /\ requestBody = NoBody
    /\ validatedInput = NoInput
    /\ order = NoOrder
    /\ error = NoError
    /\ pending = "none"
    /\ result = NoResponse
    /\ response = NoResponse
    /\ handled = 0
    /\ calls = << >>
    /\ closeCalls = [sender |-> 0, client |-> 0]
    /\ blobs = {}
    /\ queue = << >>
    /\ config = DEFAULT_RETRY_OPTIONS
    /\ attempt = 0
    /\ lastError = Undefined
    /\ delays = << >>
    /\ retValue = ""
    /\ found = NoLookup
    /\ other = InitialFrame(0)

NextLookup ==
    \/ StoreOrderDirect
    \/ GetOrder

SpecLookup == InitLookup /\ [][NextLookup]_vars

(***************************************************************************)
(* MessagingService called directly: sendOrderMessage and close(), any     *)
(* number of times in any order.                                           *)
(***************************************************************************)
\* number of calls made on the service
MaxMessagingCalls == 4

\* the sender has been closed: some sender.close() resolved
SenderClosed ==
    \E i \in DOMAIN calls : calls[i].op = "close" /\ calls[i].res # "senderFails"

\* messagingService.sendOrderMessage(order, context) called directly; a
\* closed sender rejects sendMessages
SendDirect ==
    /\ pc = "messaging"
    /\ Len(calls) < MaxMessagingCalls
    /\ \E o \in LookupOrders, ok \in BOOLEAN :
         LET e == OrderProcessingError("Failed to send order message",
                                       "MESSAGING_ERROR")
         IN  /\ ok => ~SenderClosed
             /\ calls' = Append(calls, Call("sendOrderMessage", ok,
                                            IF ok THEN NoError ELSE e, ""))
             /\ queue' = IF ok THEN Append(queue, OrderMessage(o)) ELSE queue
             /\ error' = IF ok THEN NoError ELSE e
    /\ UNCHANGED <<pc, stage, env, found, other, requestBody, validatedInput, order,
                   pending, result, response, handled, closeCalls, blobs,
                   config, attempt, lastError, delays, retValue>>

\* messagingService.close() called directly: a rejection of either close
\* is the rejection of close()
CloseDirect ==
    /\ pc = "messaging"
    /\ Len(calls) < MaxMessagingCalls
    /\ \E outcome \in CloseOutcomes :
         LET e == PlainError(IF outcome = "senderFails" THEN "Close failed"
                             ELSE "Client close failed")
         IN  /\ calls' = Append(calls, Call("close", outcome = "ok",
                                            IF outcome = "ok" THEN NoError ELSE e,
                                            outcome))
             /\ closeCalls' = CloseHandles(closeCalls, outcome)
             /\ error' = IF outcome = "ok" THEN NoError ELSE e
    /\ UNCHANGED <<pc, stage, env, found, other, requestBody, validatedInput, order,
                   pending, result, response, handled, blobs, queue, config,
                   attempt, lastError, delays, retValue>>

InitMessaging ==
    /\ pc = "messaging"
    /\ stage = "none"
    /\ env = [AzureWebJobsStorage |-> "",
              ServiceBusConnectionString |-> "Endpoint=sb://test.servicebus.windows.net/",
              SKIP_SERVICE_BUS |-> ""]
    /\ requestBody = NoBody
    /\ validatedInput = NoInput
    /\ order = NoOrder
    /\ error = NoError
    /\ pending = "none"
    /\ result = NoResponse
    /\ response = NoResponse
    /\ handled = 0
    /\ calls = << >>
    /\ closeCalls = [sender |-> 0, client |-> 0]
    /\ blobs = {}
    /\ queue = << >>
    /\ config = DEFAULT_RETRY_OPTIONS
    /\ attempt = 0
    /\ lastError = Undefined
    /\ delays = << >>
    /\ retValue = ""
    /\ found = NoLookup
    /\ other = InitialFrame(0)

NextMessaging ==
    \/ SendDirect
    \/ CloseDirect

SpecMessaging == InitMessaging /\ [][NextMessaging]_vars

(***************************************************************************)
(* processOrder against a container that holds records of earlier          *)
(* requests.                                                               *)
(***************************************************************************)
\* the records earlier requests stored: their ids were issued before, and
\* uuidv4() does not issue them again
PriorOrders ==
    {createOrder([employeeId |-> "emp-1", bikeModel |-> "M",
                  startDate |-> "2024-01-01T00:00:00Z",
                  endDate |-> "2024-01-02T00:00:00Z", price |-> 20,
                  currency |-> "USD", companyId |-> companyId],
                 "id-0", Now, Now) : companyId \in LookupCompanies}

\* the contents of the container when the request arrives
PriorStores == SUBSET {OrderBlob(o) : o \in PriorOrders}

InitStore ==
    /\ pc = "parse"
    /\ stage = "none"
    /\ env = [AzureWebJobsStorage |-> "UseDevelopmentStorage=true",
              ServiceBusConnectionString |-> "Endpoint=sb://test.servicebus.windows.net/",
              SKIP_SERVICE_BUS |-> ""]
    /\ requestBody = NoBody
    /\ validatedInput = NoInput
    /\ order = NoOrder
    /\ error = NoError
    /\ pending = "none"
    /\ result = NoResponse
    /\ response = NoResponse
    /\ handled = 0
    /\ calls = << >>
    /\ closeCalls = [sender |-> 0, client |-> 0]
    /\ blobs \in PriorStores
    /\ queue = << >>
    /\ config = DEFAULT_RETRY_OPTIONS
    /\ attempt = 0
    /\ lastError = Undefined
    /\ delays = << >>
    /\ retValue = ""
    /\ found = NoLookup
    /\ other = InitialFrame(0)

SpecStore == InitStore /\ [][Next]_vars

(***************************************************************************)
(* Properties.                                                             *)
(***************************************************************************)
\* the request has been answered
Done == pc = "done"

\* the parsed body passes the schema
ValidPayload == requestBody.kind = "object" /\ SchemaIssues(requestBody) = << >>

\* position of a gateway method in the pipeline
Rank(op) ==
    CASE op = "initializeContainer" -> 1
      [] op = "storeOrder" -> 2
      [] op = "sendOrderMessage" -> 3
      [] OTHER -> 4

\* C1: every execution of processOrder, whatever its outcome, has invoked
\* MessagingService.close() exactly once when the response is returned,
\* requests failing in parsing, validation or construction included.
C1_CloseExactlyOnce == Done => Count("close") = 1

\* C2: the gateway calls of a request happen in the order initializeContainer,
\* storeOrder, sendOrderMessage and never go back; storeOrder is called only
\* after a successful initializeContainer, sendOrderMessage only after a
\* successful storeOrder, and never when persistence was exhausted.
C2_StagesInOrder ==
    /\ \A i, j \in DOMAIN calls :
         i < j => Rank(calls[i].op) <= Rank(calls[j].op)
    /\ \A j \in DOMAIN calls :
         calls[j].op = "storeOrder" =>
            \E i \in 1..(j - 1) : calls[i].op = "initializeContainer" /\ calls[i].ok
    /\ \A j \in DOMAIN calls :
         calls[j].op = "sendOrderMessage" =>
            \E i \in 1..(j - 1) : calls[i].op = "storeOrder" /\ calls[i].ok
    /\ (Count("storeOrder") = 3 /\ CountOk("storeOrder") = 0) =>
            Count("sendOrderMessage") = 0

\* C2 witness: a request that retried initialization and persistence and then
\* reached the notification stage
C2_Witness ==
    /\ Done
    /\ Count("initializeContainer") = 2
    /\ Count("storeOrder") = 3
    /\ Count("sendOrderMessage") >= 1

\* every attempt made so far has failed
AllFailed == \A i \in DOMAIN calls : ~calls[i].ok

\* C3: with maxAttempts >= 1 and an operation failing on every attempt,
\* withRetry invokes it exactly maxAttempts times and then raises exactly
\* the failure of the last attempt.
C3_ExhaustionRaisesLast ==
    (pc # "call" /\ config.maxAttempts >= 1 /\ AllFailed) =>
        /\ Len(calls) <= config.maxAttempts
        /\ pc \in {"operation", "sleep", "raised"}
        /\ (pc = "raised") <=> (Len(calls) = config.maxAttempts /\ attempt = Len(calls))
        /\ pc = "raised" => error = calls[Len(calls)].err
        /\ pc = "sleep" => Len(calls) = attempt
        /\ pc = "operation" => Len(calls) = attempt - 1

\* C3 witness: exhaustion after several attempts whose failures differ
C3_Witness ==
    /\ pc = "raised"
    /\ config.maxAttempts >= 3
    /\ Len(calls) = config.maxAttempts
    /\ calls[1].err # calls[Len(calls)].err
    /\ calls[Len(calls) - 1].err # calls[Len(calls)].err

\* C4: withRetry has one terminal outcome.  It returns exactly when an
\* attempt succeeded: the value returned is the result of that attempt, which
\* is the first success and the last invocation, within maxAttempts, and no
\* earlier failure reaches the caller.  Otherwise it raises.
C4_OneTerminalOutcome ==
    /\ (pc = "returned") <=> (\E i \in DOMAIN calls : calls[i].ok)
    /\ pc = "returned" =>
         /\ Len(calls) >= 1
         /\ Len(calls) <= config.maxAttempts
         /\ Len(calls) = attempt
         /\ calls[Len(calls)].ok
         /\ retValue = calls[Len(calls)].res
         /\ \A i \in 1..(Len(calls) - 1) : ~calls[i].ok
         /\ error = NoError
    /\ pc = "raised" => (retValue = "" /\ error # NoError)
    /\ pc \in {"call", "operation", "sleep"} => (retValue = "" /\ error = NoError)

\* C4 witness: a success on a later attempt, after failures
C4_Witness ==
    /\ pc = "returned"
    /\ Len(calls) >= 3
    /\ ~calls[1].ok
    /\ retValue = "r2"

\* the body could not be parsed: request.json() rejected or gave a falsy body
Unparseable == pc # "parse" /\ requestBody.kind \in {"none", "null"}

\* the parsed body fails the schema
SchemaInvalid ==
    requestBody.kind \in {"number", "object"} /\ SchemaIssues(requestBody) # << >>

\* C5: a request whose body cannot be parsed or fails the schema gets status
\* 400 with success false, and no gateway method is called.
C5_InvalidInputNoGatewayCall ==
    (Unparseable \/ SchemaInvalid) =>
        /\ Count("initializeContainer") = 0
        /\ Count("storeOrder") = 0
        /\ Count("sendOrderMessage") = 0
        /\ pc \in {"validate", "catch", "done"}
        /\ Done => (response.status = 400 /\ response.jsonBody.success = FALSE)

\* C5 witness: an answered request whose object body fails the schema
C5_Witness ==
    /\ Done
    /\ requestBody.kind = "object"
    /\ SchemaIssues(requestBody) # << >>
    /\ response.status = 400

\* C6: initializeContainer succeeds and storeOrder fails on all 3 attempts:
\* the response is 500 {success:false, message, code:"STORAGE_ERROR"},
\* sendOrderMessage is never called and close() is called.
C6_StorageExhausted ==
    (Done /\ CountOk("initializeContainer") >= 1 /\ Count("storeOrder") = 3
          /\ CountOk("storeOrder") = 0) =>
        /\ response = [status |-> 500,
                       jsonBody |-> [success |-> FALSE,
                                     message |-> "Failed to store order in storage",
                                     code |-> "STORAGE_ERROR"]]
        /\ Count("sendOrderMessage") = 0
        /\ Count("close") >= 1

\* C7: storeOrder succeeds and sendOrderMessage fails on all 3 attempts: the
\* response is 500 with success false and the code of the notification
\* gateway, the stored record is still in the store, close() is called once.
C7_NotificationExhausted ==
    (Done /\ CountOk("storeOrder") >= 1 /\ Count("sendOrderMessage") = 3
          /\ CountOk("sendOrderMessage") = 0) =>
        /\ response.status = 500
        /\ response.jsonBody.success = FALSE
        /\ "code" \in DOMAIN response.jsonBody
        /\ response.jsonBody.code = "MESSAGING_ERROR"
        /\ OrderBlob(order) \in blobs
        /\ Count("close") = 1

\* C8: at most 2 initializeContainer, 3 storeOrder and 3 sendOrderMessage
\* calls per request, each stage with its own budget: a stage gives up only
\* after its own full number of attempts, whatever the earlier stages used.
C8_IndependentBudgets ==
    /\ Count("initializeContainer") <= 2
    /\ Count("storeOrder") <= 3
    /\ Count("sendOrderMessage") <= 3
    /\ pc = "init" => Count("initializeContainer") < 2
    /\ pc = "store" => Count("storeOrder") < 3
    /\ pc = "send" => Count("sendOrderMessage") < 3
    /\ (pc \in {"finally", "catch", "done"} /\ Count("initializeContainer") >= 1
           /\ CountOk("initializeContainer") = 0) => Count("initializeContainer") = 2
    /\ (pc \in {"finally", "catch", "done"} /\ Count("storeOrder") >= 1
           /\ CountOk("storeOrder") = 0) => Count("storeOrder") = 3
    /\ (pc \in {"finally", "catch", "done"} /\ Count("sendOrderMessage") >= 1
           /\ CountOk("sendOrderMessage") = 0) => Count("sendOrderMessage") = 3

\* C8 witness: every stage used its whole budget in one request
C8_Witness ==
    /\ Done
    /\ Count("initializeContainer") = 2
    /\ Count("storeOrder") = 3
    /\ Count("sendOrderMessage") = 3

\* every call made succeeded (so each was a first attempt)
Healthy == \A i \in DOMAIN calls : calls[i].ok

\* C9: a valid payload with healthy gateways (every gateway call, close()
\* included, succeeds on its first attempt) gets status 201 with
\* {success:true, orderId:<id of the created order>, message:"Order
\* processed successfully"}, each of initializeContainer, storeOrder,
\* sendOrderMessage and close having been called exactly once.
C9_HealthySuccess ==
    (Done /\ ValidPayload /\ Healthy
          /\ StorageConnectionValid(env.AzureWebJobsStorage)
          /\ ServiceBusConnectionValid(env.ServiceBusConnectionString)) =>
        /\ order.id \in Ids
        /\ response = [status |-> 201,
                       jsonBody |-> [success |-> TRUE, orderId |-> order.id,
                                     message |-> "Order processed successfully"]]
        /\ Count("initializeContainer") = 1
        /\ Count("storeOrder") = 1
        /\ Count("sendOrderMessage") = 1
        /\ Count("close") = 1

\* C9 witness: a request answered 201
C9_Witness ==
    /\ Done
    /\ ValidPayload
    /\ Healthy
    /\ Len(calls) = 4
    /\ response.status = 201

\* a formatted violation ending in the date-order message
EndsInDateOrderMessage(m) ==
    \E path \in FieldSet \cup {""} :
        m = path \o ": " \o "End date must be after start date"

\* both dates are given, parse as dates, and the end is not after the start
DateOrderViolated(b) ==
    /\ b.kind = "object"
    /\ {"startDate", "endDate"} \cap b.missing = {}
    /\ DateValue(b.startDate) # NaN
    /\ DateValue(b.endDate) # NaN
    /\ DateValue(b.endDate) <= DateValue(b.startDate)

\* every field other than the dates satisfies its own rule
OtherFieldsValid(b) ==
    /\ b.missing = {}
    /\ b.employeeId = "emp-1"
    /\ b.bikeModel = "M"
    /\ b.price = 10
    /\ b.currency = "USD"
    /\ b.companyId = "c1"
    /\ IsDatetime(b.startDate)
    /\ IsDatetime(b.endDate)

\* the response is a 400 whose errors list has a date-order message
HasDateOrderError ==
    /\ response.status = 400
    /\ "errors" \in DOMAIN response.jsonBody
    /\ \E k \in DOMAIN response.jsonBody.errors :
            EndsInDateOrderMessage(response.jsonBody.errors[k])

\* the response when the date order is the only violation
OnlyDateOrderError ==
    /\ response.jsonBody.message = "Validation failed"
    /\ response.jsonBody.errors = << "endDate: End date must be after start date" >>

C11_ConfigurationErrorResponse ==
    (Done /\ ValidPayload /\ env.AzureWebJobsStorage = "") =>
        /\ calls = << >>
        /\ delays = << >>
        /\ response.status = 500
        /\ response.jsonBody.success = FALSE
        /\ "code" \in DOMAIN response.jsonBody
        /\ response.jsonBody.code = "STORAGE_CONFIG_ERROR"

\* C12: with SKIP_SERVICE_BUS=true a valid request whose persistence
\* succeeds never calls sendOrderMessage and gets the 201 response, whatever
\* the notification gateway or ServiceBusConnectionString are.
C12_BypassSkipsNotification ==
    (Done /\ ValidPayload /\ env.SKIP_SERVICE_BUS = "true"
          /\ CountOk("storeOrder") >= 1) =>
        /\ Count("sendOrderMessage") = 0
        /\ response.status = 201

\* the response of handleError's last branch
GenericResponse ==
    [status |-> 500,
     jsonBody |-> [success |-> FALSE, message |-> "Internal server error"]]

\* the request failed with a value that is not an OrderProcessingError
UnrecognizedFailure == Done /\ handled = 1 /\ ~IsOrderProcessingError(error)

\* C13: whenever the failure handed to handleError is not an
\* OrderProcessingError, the response is exactly 500 {success:false,
\* message:"Internal server error"}: the same response for every such
\* failure, whatever its message, so nothing of the failure reaches the caller.
C13_UnrecognizedFailureGeneric ==
    UnrecognizedFailure =>
        /\ response = GenericResponse
        /\ DOMAIN response.jsonBody = {"success", "message"}
        /\ response.jsonBody.message # error.message

\* two different unrecognized failures are reachable: a rejected close() here,
\* a throwing constructor in other runs
C13_Witness ==
    /\ UnrecognizedFailure
    /\ error = PlainError("Close failed")
    /\ CountOk("sendOrderMessage") = 1
    /\ response = GenericResponse

\* C14: processOrder answers every request with one response and lets no
\* exception escape: before the end there is no response and a step is
\* always possible; at the end handleError has run once for a failed request
\* and never for a successful one, the status is 201, 400 or 500, and
\* success is true exactly when the status is 201.
C14_OneClassifiedResponse ==
    /\ handled \in {0, 1}
    /\ ~Done => (response = NoResponse /\ handled = 0 /\ ENABLED Next)
    /\ Done =>
        /\ response.status \in {201, 400, 500}
        /\ response.jsonBody.success <=> response.status = 201
        /\ response.status = 201 <=> handled = 0
        /\ response.status # 201 => response = handleError(error)

\* a request that failed in a gateway after retries and was answered once
C14_Witness ==
    /\ Done
    /\ handled = 1
    /\ response.status = 500
    /\ "code" \in DOMAIN response.jsonBody
    /\ Count("storeOrder") = 3

\* the response has an errors array
HasErrorsList == "errors" \in DOMAIN response.jsonBody

FieldViolated(b, f) ==
    \/ f \in b.missing
    \/ f = "employeeId" /\ b.employeeId = ""
    \/ f = "bikeModel" /\ b.bikeModel = ""
    \/ f = "startDate" /\ ~IsDatetime(b.startDate)
    \/ f = "endDate" /\ ~IsDatetime(b.endDate)
    \/ f = "price" /\ b.price <= 0
    \/ f = "currency" /\ b.currency # "USD"
    \/ f = "companyId" /\ b.companyId = ""

\* the reason reported for a violated key
FieldReason(b, f) ==
    IF f \in b.missing THEN "Required"
    ELSE CASE f = "employeeId" -> "Employee ID is required"
           [] f = "bikeModel" -> "Bike model is required"
           [] f = "startDate" -> "Invalid start date format"
           [] f = "endDate" -> "Invalid end date format"
           [] f = "price" -> "Price must be positive"
           [] f = "currency" -> "Currency must be 3 characters"
           [] f = "companyId" -> "Company ID is required"

\* the violated keys of the body, in schema order
ViolatedFields(b) ==
    LET Violated(f) == FieldViolated(b, f) IN SelectSeq(Fields, Violated)

\* one "<field>: <reason>" string per violated key, in schema order
FieldErrors(b) ==
    [k \in DOMAIN ViolatedFields(b) |->
        ViolatedFields(b)[k] \o ": " \o FieldReason(b, ViolatedFields(b)[k])]

\* an answered request whose object body failed the schema
ObjectRejected == Done /\ requestBody.kind = "object" /\ SchemaInvalid

C17_RecordStamps ==
    order # NoOrder =>
        /\ order.status = "PENDING"
        /\ order.createdAt = order.updatedAt
        /\ order.companyId = validatedInput.companyId
        /\ order.employeeId = validatedInput.employeeId
        /\ order.bikeModel = validatedInput.bikeModel
        /\ order.price = validatedInput.price
        /\ order.currency = validatedInput.currency

\* the blobs, the messages and the 201 response all carry the one record
RecordCarried ==
    /\ \A blob \in blobs :
        /\ blob.name = order.companyId \o "/" \o order.id \o ".json"
        /\ blob.data.id = order.id
        /\ blob.data.companyId = order.companyId
        /\ blob.data.employeeId = order.employeeId
        /\ blob.data.status = order.status
        /\ blob.data.price = order.price
        /\ blob.data.currency = order.currency
        /\ \A k \in DOMAIN queue :
            /\ queue[k].body.orderId = blob.data.id
            /\ queue[k].body.companyId = blob.data.companyId
            /\ queue[k].body.employeeId = blob.data.employeeId
            /\ queue[k].body.status = blob.data.status
            /\ queue[k].body.price = blob.data.price
            /\ queue[k].body.currency = blob.data.currency
    /\ \A k \in DOMAIN queue :
        /\ queue[k].messageId = order.id
        /\ queue[k].correlationId = order.companyId \o "-" \o order.id
        /\ DOMAIN queue[k].body =
              {"orderId", "companyId", "employeeId", "status", "price", "currency"}
        /\ queue[k].body.orderId = order.id
    /\ Cardinality(blobs) <= 1
    /\ queue # << >> => blobs # {}
    /\ (Done /\ response.status = 201) => response.jsonBody.orderId = order.id
    /\ (blobs # {} \/ queue # << >>) => order # NoOrder

\* C18: the record gets its id once and no step changes it afterwards (no
\* attempt of storeOrder or sendOrderMessage, no retry, no close); the blob
\* key is companyId/id.json, the message has messageId = id, correlationId =
\* companyId-id and the six body fields of the stored record, and the
\* orderId of a 201 response is that id.
C18_RecordNeverChanges ==
    /\ []RecordCarried
    /\ [][order # NoOrder => order' = order]_vars

\* stored on a second attempt, sent on a third, answered 201
C18_Witness ==
    /\ Done
    /\ response.status = 201
    /\ Count("storeOrder") = 2
    /\ Count("sendOrderMessage") = 3
    /\ Cardinality(blobs) = 1
    /\ Len(queue) = 1
    /\ queue[1].messageId = order.id

\* the call just made on the service is a getOrder
JustLookedUp == calls # << >> /\ calls[Len(calls)].op = "getOrder"

\* C19: getOrder never raises; it returns the record storeOrder wrote under
\* companyId/id.json when the container holds one, and null when it holds
\* none.
C19_LookupReturnsStoredRecord ==
    JustLookedUp =>
        LET hit == {b \in blobs : b.name = found.key}
        IN  /\ found.outcome \in {"record", "null"}
            /\ hit = {} => found.outcome = "null"
            /\ hit # {} =>
                  /\ found.outcome = "record"
                  /\ \E b \in hit : found.value = b.data

\* the attempts of the operation that failed
FailedCalls == {i \in DOMAIN calls : ~calls[i].ok}

C22_InitExhausted ==
    (Done /\ Count("initializeContainer") = 2
          /\ CountOk("initializeContainer") = 0) =>
        /\ response.status = 500
        /\ response.jsonBody.success = FALSE
        /\ "code" \in DOMAIN response.jsonBody
        /\ response.jsonBody.code = "STORAGE_INIT_ERROR"
        /\ Count("storeOrder") = 0
        /\ Count("sendOrderMessage") = 0
        /\ Count("close") = 1

\* C23: an empty (falsy) body is answered 400 with message "Request body is
\* required", a rejected request.json() is answered 400 with message
\* "Invalid JSON in request body"; the first is never reported as the second.
C23_ParseFailuresDistinct ==
    (Done /\ Unparseable) =>
        /\ response.status = 400
        /\ response.jsonBody.success = FALSE
        /\ handled = 1
        /\ calls = << >>
        /\ requestBody.kind = "null" =>
              /\ response.jsonBody.message = "Request body is required"
              /\ error.validationErrors = << "Request body cannot be empty" >>
        /\ requestBody.kind = "none" =>
              response.jsonBody.message = "Invalid JSON in request body"

\* an empty body answered with its own message
C23_Witness ==
    /\ Done
    /\ requestBody.kind = "null"
    /\ response.status = 400
    /\ response.jsonBody.message = "Request body is required"

\* the end is strictly before the start and nothing else is wrong
EndBeforeStartOnly(b) ==
    /\ b.kind = "object"
    /\ OtherFieldsValid(b)
    /\ DateValue(b.endDate) < DateValue(b.startDate)

\* the errors array has an element equal to m
ErrorsContain(m) ==
    /\ "errors" \in DOMAIN response.jsonBody
    /\ \E k \in DOMAIN response.jsonBody.errors : response.jsonBody.errors[k] = m

C26_RaisesProducedFailure ==
    /\ pc \in {"returned", "raised"} => Len(calls) >= 1
    /\ pc = "raised" => \E i \in DOMAIN calls : ~calls[i].ok /\ calls[i].err = error

\* C28: a rejection of close() does not change the response: 201 when the
\* three gateway stages succeeded, the failed stage's classified error
\* otherwise.
C28_CloseFailureKeepsResponse ==
    (Done /\ Count("close") = 1 /\ CountOk("close") = 0) =>
        /\ CountOk("sendOrderMessage") = 1 => response = SuccessResponse(order)
        /\ (Count("storeOrder") = 3 /\ CountOk("storeOrder") = 0) =>
              ("code" \in DOMAIN response.jsonBody
                  /\ response.jsonBody.code = "STORAGE_ERROR")
        /\ (Count("sendOrderMessage") = 3 /\ CountOk("sendOrderMessage") = 0) =>
              ("code" \in DOMAIN response.jsonBody
                  /\ response.jsonBody.code = "MESSAGING_ERROR")
        /\ (Count("initializeContainer") = 2 /\ CountOk("initializeContainer") = 0) =>
              ("code" \in DOMAIN response.jsonBody
                  /\ response.jsonBody.code = "STORAGE_INIT_ERROR")

\* the successful attempts of a method, by position in calls
OkCalls(op) == {i \in DOMAIN calls : calls[i].op = op /\ calls[i].ok}

\* C29: a 201 is returned only when exactly one storeOrder attempt and,
\* after it, exactly one sendOrderMessage attempt succeeded; and whenever a
\* storeOrder attempt has succeeded the record is in the container, also
\* when the request ends with success false.
C29_SuccessMeansStoredAndSent ==
    /\ (Done /\ response.status = 201) =>
        /\ Cardinality(OkCalls("storeOrder")) = 1
        /\ Cardinality(OkCalls("sendOrderMessage")) = 1
        /\ \A i \in OkCalls("storeOrder"), j \in OkCalls("sendOrderMessage") : i < j
        /\ response.jsonBody.success = TRUE
        /\ Len(queue) = 1
    /\ OkCalls("storeOrder") # {} => OrderBlob(order) \in blobs
    /\ (Done /\ OkCalls("storeOrder") # {} /\ response.jsonBody.success = FALSE) =>
        /\ response.status = 500
        /\ \E b \in blobs : b.name = BlobName(order.companyId, order.id)
                            /\ b.data = OrderJson(order)

\* stored, then the notification failed three times: the caller is told the
\* request failed and the record is in the container
C29_Witness ==
    /\ Done
    /\ response.jsonBody.success = FALSE
    /\ Cardinality(OkCalls("storeOrder")) = 1
    /\ Count("sendOrderMessage") = 3
    /\ OkCalls("sendOrderMessage") = {}
    /\ OrderBlob(order) \in blobs

\* the key of the request's record
OwnKey(o) == o.companyId \o "/" \o o.id \o ".json"

\* the blobs of the container under another key
OtherBlobs(store, o) == {b \in store : b.name # OwnKey(o)}

\* the container holds at most the one record of the request under its key,
\* with the content of the record
OneOwnRecord ==
    /\ \A b \in blobs \ OtherBlobs(blobs, order) :
            b.data = OrderJson(order) /\ b.data.id = order.id
    /\ Cardinality(blobs \ OtherBlobs(blobs, order)) <= 1
    /\ Cardinality({b \in blobs : b.data.id = order.id}) <= 1
    /\ (\E i \in DOMAIN calls : calls[i].op = "storeOrder" /\ calls[i].res = "wrote")
            <=> blobs \ OtherBlobs(blobs, order) # {}

\* C30: every attempt of storeOrder of a request writes the same content
\* under companyId/id.json: whatever the attempts (one that wrote the blob
\* and was reported failed, then retried, included) the container holds at
\* most one record of the request, and no step changes the records under
\* other keys.
C30_StoreRetryIdempotent ==
    /\ []OneOwnRecord
    /\ [][OtherBlobs(blobs', order') = OtherBlobs(blobs, order')]_vars

\* a first attempt wrote the blob and was reported failed, the retry wrote
\* it again; the record of an earlier request is still there
C30_Witness ==
    /\ Count("storeOrder") >= 2
    /\ calls[2].op = "storeOrder" /\ ~calls[2].ok /\ calls[2].res = "wrote"
    /\ calls[3].op = "storeOrder" /\ calls[3].ok
    /\ Cardinality(blobs) = 2
    /\ OrderBlob(order) \in blobs
    /\ order.companyId = "c1"
    /\ \E b \in blobs : b.data.id = "id-0" /\ b.data.companyId = "c1"

\* the step is a call of close() with the given outcome
ClosedWith(outcome) ==
    /\ Len(calls') = Len(calls) + 1
    /\ calls'[Len(calls')].op = "close"
    /\ calls'[Len(calls')].res = outcome

GatewayAttempts ==
    Count("initializeContainer") + Count("storeOrder") + Count("sendOrderMessage")

\* C27: when every gateway call, sleep and close() completes, every request
\* ends with its response, after at most 2 + 3 + 3 = 8 gateway attempts;
\* each withRetry makes at most maxAttempts invocations.
C27_RequestTerminates ==
    /\ <>Done
    /\ [](/\ Count("initializeContainer") <= 2
          /\ Count("storeOrder") <= 3
          /\ Count("sendOrderMessage") <= 3
          /\ GatewayAttempts <= 8
          /\ (stage # "none" /\ pc # "finally" /\ pc # "catch" /\ pc # "done")
                => attempt <= config.maxAttempts
          /\ Len(delays) < config.maxAttempts
          /\ Done => response # NoResponse)

\* a request that used all eight attempts and was answered
C27_Witness ==
    /\ Done
    /\ Count("initializeContainer") = 2
    /\ Count("storeOrder") = 3
    /\ Count("sendOrderMessage") = 3
    /\ GatewayAttempts = 8
    /\ response # NoResponse

\* how many times an execution called a method, from its own history
CountIn(cs, op) == Cardinality({i \in DOMAIN cs : cs[i].op = op})

\* the method a withRetry stage calls
StageOp(st) ==
    CASE st = "init" -> "initializeContainer"
      [] st = "store" -> "storeOrder"
      [] st = "send" -> "sendOrderMessage"
      [] OTHER -> "none"

\* the response of an execution that runs alone, from what it received and
\* the outcomes its own gateway calls had
AloneResponse(f) ==
    IF f.requestBody.kind = "none"
    THEN handleError(ValidationError("Invalid JSON in request body",
                                     << "Request body must be valid JSON" >>))
    ELSE IF f.requestBody.kind = "null"
    THEN handleError(ValidationError("Request body is required",
                                     << "Request body cannot be empty" >>))
    ELSE IF SchemaIssues(f.requestBody) # << >>
    THEN handleError(ValidationError("Validation failed",
                                     FormatIssues(SchemaIssues(f.requestBody))))
    ELSE IF f.calls = << >> \/ ~f.calls[Len(f.calls)].ok
    THEN GenericResponse
    ELSE IF \E i \in DOMAIN f.calls : f.calls[i].op = "sendOrderMessage" /\ f.calls[i].ok
    THEN SuccessResponse(f.order)
    ELSE handleError(f.calls[Len(f.calls) - 1].err)

\* the local state of an execution shows its own work only
Isolated(f) ==
    /\ f.closeCalls.sender = CountIn(f.calls, "close")
    /\ f.closeCalls.sender <= 1
    /\ f.closeCalls.client <= f.closeCalls.sender
    /\ CountIn(f.calls, "initializeContainer") <= 2
    /\ CountIn(f.calls, "storeOrder") <= 3
    /\ CountIn(f.calls, "sendOrderMessage") <= 3
    /\ f.pc \in {"init", "store", "send"} =>
            f.attempt = CountIn(f.calls, StageOp(f.pc)) + 1
    /\ f.pc = "sleep" =>
            /\ f.attempt = CountIn(f.calls, StageOp(f.stage))
            /\ Len(f.delays) = f.attempt
    /\ f.pc = "done" => f.response = AloneResponse(f)
    /\ f.pc # "done" => f.response = NoResponse
    /\ f.order # NoOrder => f.validatedInput = SchemaData(f.requestBody)

\* C21: in every interleaving of two processOrder executions each one works
\* on its own services and locals: a step of one never changes the local
\* state of the other, each closes its own MessagingService (once), its
\* attempt counter counts its own attempts, and its response is the one it
\* gives alone for the same payload and the same gateway outcomes.
C21_ExecutionsIsolated ==
    /\ [](Isolated(Frame) /\ Isolated(other))
    /\ [][other' = other \/ (other' = Frame /\ Frame' = other)]_vars

\* both executions are in their gateway stages at once: one has stored and
\* is sending, the other waits to retry its own storeOrder
C21_Witness ==
    /\ pc = "send"
    /\ Count("storeOrder") = 1
    /\ other.pc = "sleep"
    /\ other.stage = "store"
    /\ CountIn(other.calls, "storeOrder") = 1
    /\ other.attempt = 1
    /\ attempt = 1

RECURSIVE SumSeq(_)
SumSeq(q) == IF q = << >> THEN 0 ELSE Head(q) + SumSeq(Tail(q))

\* the sleeps a stage has made, from the attempts of its method: one after
\* each failed attempt, except the failure that exhausted its budget
SleptIn(op, budget) ==
    (Count(op) - CountOk(op))
        - (IF Count(op) = budget /\ CountOk(op) = 0 THEN 1 ELSE 0)

\* the time of the first n sleeps of a stage
SleepTime(n) == SumSeq(SubSeq(<< 1000, 2000 >>, 1, n))

\* the time the request has slept so far, over its three stages
TotalSlept ==
    SleepTime(SleptIn("initializeContainer", 2))
        + SleepTime(SleptIn("storeOrder", 3))
        + SleepTime(SleptIn("sendOrderMessage", 3))

\* the budget processOrder gives a stage
StageBudget(st) == IF st = "init" THEN 2 ELSE 3

\* C31: with the policies of processOrder the sleeps of a stage are 1000 ms
\* then 2000 ms, one after each failed attempt but the exhausting one: at
\* most one in initializeContainer, two in storeOrder, two in
\* sendOrderMessage, 7000 ms in all; a stage that succeeds at its first
\* attempt sleeps not at all.
C31_SleepBudget ==
    /\ stage \in {"init", "store", "send"} =>
        /\ delays = SubSeq(<< 1000, 2000 >>, 1,
                           SleptIn(StageOp(stage), StageBudget(stage)))
        /\ SumSeq(delays) = SleepTime(Len(delays))
        /\ (Count(StageOp(stage)) = 1 /\ CountOk(StageOp(stage)) = 1) => delays = << >>
        /\ config.baseDelay = 1000 /\ config.backoffMultiplier = 2
        /\ config.maxDelay = 10000 /\ config.maxAttempts = StageBudget(stage)
    /\ stage = "none" => delays = << >>
    /\ SleptIn("initializeContainer", 2) \in 0..1
    /\ SleptIn("storeOrder", 3) \in 0..2
    /\ SleptIn("sendOrderMessage", 3) \in 0..2
    /\ TotalSlept <= 7000

\* every stage succeeded at its last attempt: the request slept 7000 ms and
\* was answered 201
C31_Witness ==
    /\ Done
    /\ response.status = 201
    /\ Count("initializeContainer") = 2
    /\ Count("storeOrder") = 3
    /\ Count("sendOrderMessage") = 3
    /\ delays = << 1000, 2000 >>
    /\ TotalSlept = 7000

====
